---- MODULE Spec2Model ----
(***************************************************************************)
(* A model of the recorder component (src/App.jsx): the React state of     *)
(* the component, the platform resources it drives (capture device,        *)
(* playback resources, the recordings directory) and every suspension of   *)
(* its async handlers.  A handler invocation captures the state values of  *)
(* the render it was created in and keeps them across its awaits; the      *)
(* handlers the user can reach are those of the latest render.             *)
(***************************************************************************)
EXTENDS Integers, Sequences, FiniteSets, Bags, TLC

VARIABLES
    \* React state of App (useState)
    recording, sound, isRecording, isPlaying, playingUri, recordings,
    permissionResponse,
    \* platform state behind expo-av and expo-file-system
    audioMode, openRecordings, tempFiles, loaded, dirExists, files, now, os,
    \* suspended invocations of the async functions (bags of records)
    startTasks, stopTasks, playTasks, deleteTasks, loadTasks, ensureTasks,
    \* whether the platform may reject I/O in this run
    faults,
    \* whether the component is mounted
    mounted,
    \* what the step just taken reported, and the latest playback invocation
    alert, lastDone, pre

vars == <<recording, sound, isRecording, isPlaying, playingUri, recordings,
          permissionResponse, audioMode, openRecordings, tempFiles, loaded,
          dirExists, files, now, os, startTasks, stopTasks, playTasks,
          deleteTasks, loadTasks, ensureTasks, alert, lastDone, pre,
          faults, mounted>>

captureVars == <<recording, isRecording>>
playbackVars == <<sound, isPlaying, playingUri>>

\* ---------------------------------------------------------------- bounds
MaxStarts == 2       \* startRecording invocations in flight
MaxStops == 2        \* stopRecording invocations in flight
MaxPresses == 2      \* playSound and deleteRecording invocations in flight
MaxLoads == 2        \* loadRecordings invocations in flight
MaxSounds == 2       \* Audio.Sound handles alive at once
MaxRecordings == 2   \* Audio.Recording handles created in a run
ClockStart == 9      \* Date.now() at mount
ClockTicks == 1      \* milliseconds the clock may advance
OldFiles == 2        \* recordings left by earlier runs of the app

NoHandle == 0         \* null in a state slot that holds a handle
NoUri == <<>>         \* null in a state slot that holds a uri

\* ------------------------------------------------------------- strings
\* A string is a sequence of one-character strings, so that formatting a
\* timestamp into a file name and parsing it back are computed.
Digits == <<"0", "1", "2", "3", "4", "5", "6", "7", "8", "9">>

IsDigit(c) == \E i \in 1..Len(Digits) : Digits[i] = c

DigitValue(c) == (CHOOSE i \in 1..Len(Digits) : Digits[i] = c) - 1

RECURSIVE NumberToString(_)
\* `${timestamp}` : the decimal digits of a non-negative integer
NumberToString(n) ==
    IF n < 10 THEN <<Digits[n + 1]>>
    ELSE NumberToString(n \div 10) \o <<Digits[(n % 10) + 1]>>

RECURSIVE DigitsToNumber(_)
DigitsToNumber(s) ==
    IF s = <<>> THEN 0
    ELSE 10 * DigitsToNumber(SubSeq(s, 1, Len(s) - 1)) + DigitValue(s[Len(s)])

\* A JS number: NaN or an integer.
Num(v) == [nan |-> FALSE, val |-> v]
NaN == [nan |-> TRUE, val |-> 0]

\* A JS value held in the date field: a string or a number.
StrVal(s) == [isStr |-> TRUE, str |-> s, num |-> 0]
NumVal(n) == [isStr |-> FALSE, str |-> <<>>, num |-> n]

\* ToNumber of a date value, as the subtraction in the comparator applies it:
\* the empty string is 0, a string of digits its value, any other string NaN.
ToNumber(v) ==
    IF ~v.isStr THEN Num(v.num)
    ELSE IF \A i \in 1..Len(v.str) : IsDigit(v.str[i]) THEN Num(DigitsToNumber(v.str))
    ELSE NaN

RECURSIVE Split(_, _)
\* String.prototype.split on a one-character separator
Split(s, sep) ==
    IF \A i \in 1..Len(s) : s[i] # sep THEN <<s>>
    ELSE LET k == CHOOSE i \in 1..Len(s) :
                    s[i] = sep /\ \A j \in 1..(i - 1) : s[j] # sep
         IN <<SubSeq(s, 1, k - 1)>> \o Split(SubSeq(s, k + 1, Len(s)), sep)

\* ------------------------------------------------------- configuration
RECORDINGS_DIR == <<"recordings/">>

getFileExtension(platform) ==
    IF platform = "ios" THEN <<".", "w", "a", "v">>
    ELSE IF platform = "android" THEN <<".", "o", "g", "g">>
    ELSE <<".", "m", "4", "a">>

\* `rec_${timestamp}${extension}`
newFilename(timestamp, extension) ==
    <<"r", "e", "c", "_">> \o NumberToString(timestamp) \o extension

\* RECORDINGS_DIR + filename
UriOf(filename) == RECORDINGS_DIR \o filename

\* the name readDirectoryAsync reports for a file of the directory
NameOf(uri) == SubSeq(uri, Len(RECORDINGS_DIR) + 1, Len(uri))

\* ------------------------------------------------------------- catalog
\* filename.split('_')[1]?.split('.')[0] || Date.now()
dateOf(filename, dateNow) ==
    LET parts == Split(filename, "_")
    IN IF Len(parts) < 2 THEN NumVal(dateNow)
       ELSE LET seg == Split(parts[2], ".")[1]
            IN IF seg = <<>> THEN NumVal(dateNow) ELSE StrVal(seg)

\* the object a filename is mapped to
fileEntry(filename, dateNow) ==
    [name |-> filename, uri |-> UriOf(filename), date |-> dateOf(filename, dateNow)]

\* a variant with the operands exchanged: (a, b) => a.date - b.date
compareDates_ascending(a, b) ==
    LET x == ToNumber(a.date)
        y == ToNumber(b.date)
    IN IF x.nan \/ y.nan THEN NaN ELSE Num(x.val - y.val)

\* (a, b) => b.date - a.date
compareDates(a, b) ==
    LET x == ToNumber(b.date)
        y == ToNumber(a.date)
    IN IF x.nan \/ y.nan THEN NaN ELSE Num(x.val - y.val)

\* the comparator places a after b: its result is a number above zero
\* (SortCompare reads NaN as +0)
sortsAfter(a, b) ==
    LET v == compareDates(a, b) IN ~v.nan /\ v.val > 0

RECURSIVE sortInsert(_, _)
sortInsert(s, x) ==
    IF s = <<>> THEN <<x>>
    ELSE IF sortsAfter(s[Len(s)], x)
         THEN Append(sortInsert(SubSeq(s, 1, Len(s) - 1), x), s[Len(s)])
         ELSE Append(s, x)

RECURSIVE sortEntries(_)
\* Array.prototype.sort with the comparator: a stable sort
sortEntries(s) ==
    IF s = <<>> THEN <<>>
    ELSE sortInsert(sortEntries(SubSeq(s, 1, Len(s) - 1)), s[Len(s)])

\* a variant that drops the names no timestamp can be read from
fileList_dropsUnparsed(names, dateNow) ==
    sortEntries(SelectSeq([i \in 1..Len(names) |-> fileEntry(names[i], dateNow)],
                          LAMBDA e : e.date.isStr /\ ~ToNumber(e.date).nan))

\* files.map(...).sort(...)
fileList(names, dateNow) ==
    sortEntries([i \in 1..Len(names) |-> fileEntry(names[i], dateNow)])

\* every order in which readDirectoryAsync may enumerate a set of names
Enumerations(S) ==
    {s \in [1..Cardinality(S) -> S] : \A i, j \in 1..Cardinality(S) : i # j => s[i] # s[j]}

FileUris == {f.uri : f \in files}
DirNames == {NameOf(f.uri) : f \in files}
ListedUris == {recordings[i].uri : i \in 1..Len(recordings)}

\* --------------------------------------------------------------- bags
BagAdd(B, t) == B (+) SetToBag({t})
BagRemove(B, t) == B (-) SetToBag({t})

\* ------------------------------------------------------------ history
\* lastDone describes the handler whose last step was the step just taken:
\* op, its argument and how it ended.  pre describes the latest invocation of
\* playSound or deleteRecording: the playback state and playingUri it was
\* invoked in, whether no other invocation was in flight (so that it has run
\* alone as long as it is the latest), and whether it directly followed the
\* completion of a first toggle of the same uri.
NoOp == [op |-> "none", uri |-> NoUri, result |-> "none"]

NoPre == [from |-> "none", prevUri |-> NoUri, solo |-> FALSE, chain |-> FALSE]

Quiet == alert' = "none" /\ lastDone' = NoOp

\* whether an I/O call succeeds: in a run with faults the platform may reject it
Outcomes == IF faults THEN BOOLEAN ELSE {TRUE}

\* --------------------------------------------------------------- Init
\* the recordings earlier runs of the app left in the directory
OldRecordings(platform) ==
    {[uri |-> UriOf(newFilename(ClockStart - k, getFileExtension(platform))),
      content |-> NoHandle] : k \in 1..OldFiles}

\* files something other than the app left in the directory: a name with no
\* '_', a name whose segment after '_' is empty, and names whose segment is
\* not a number
ForeignFiles ==
    {[uri |-> UriOf(n), content |-> NoHandle] :
        n \in {<<"n", "o", "t", "e", "s">>,
               <<"r", "e", "c", "_", ".", "o", "g", "g">>,
               <<"r", "e", "c", "_", "x", ".", "o", "g", "g">>}}

LoadTask(pc, names) == [pc |-> pc, names |-> names]

\* The state after the first render and its mount effect, which has called
\* ensureDirExists() and loadRecordings(): both are suspended at getInfoAsync.
Init ==
    /\ recording = NoHandle
    /\ sound = NoHandle
    /\ isRecording = FALSE
    /\ isPlaying = FALSE
    /\ playingUri = NoUri
    /\ recordings = <<>>
    /\ permissionResponse = "null"
    /\ audioMode = FALSE
    /\ openRecordings = {}
    /\ tempFiles = {}
    /\ loaded = {}
    /\ os \in {"ios", "android", "web"}
    /\ dirExists \in BOOLEAN
    /\ files \in (IF dirExists THEN SUBSET (OldRecordings(os) \cup ForeignFiles) ELSE {{}})
    /\ now = ClockStart
    /\ startTasks = EmptyBag
    /\ stopTasks = EmptyBag
    /\ playTasks = EmptyBag
    /\ deleteTasks = EmptyBag
    /\ loadTasks = SetToBag({LoadTask("info", <<>>)})
    /\ ensureTasks = SetToBag({[pc |-> "info"]})
    /\ alert = "none"
    /\ lastDone = NoOp
    /\ pre = NoPre
    /\ faults \in BOOLEAN
    /\ mounted = TRUE

\* Date.now() advances
Tick ==
    /\ now < ClockStart + ClockTicks
    /\ now' = now + 1
    /\ UNCHANGED <<recording, sound, isRecording, isPlaying, playingUri, recordings,
                   permissionResponse, audioMode, openRecordings, tempFiles, loaded,
                   dirExists, files, os, startTasks, stopTasks, playTasks,
                   deleteTasks, loadTasks, ensureTasks, faults, mounted, pre>>
    /\ Quiet

\* Audio.usePermissions() delivers the platform's permission status
usePermissions ==
    /\ mounted
    /\ permissionResponse = "null"
    /\ permissionResponse' \in {"undetermined", "granted", "denied"}
    /\ UNCHANGED <<recording, sound, isRecording, isPlaying, playingUri, recordings,
                   audioMode, openRecordings, tempFiles, loaded, dirExists, files,
                   now, os, startTasks, stopTasks, playTasks, deleteTasks,
                   loadTasks, ensureTasks, faults, mounted, pre>>
    /\ Quiet

\* ------------------------------------------------- ensureDirExists (mount)
\* how a call of ensureDirExists, made directly (op "ensure") or inside
\* loadRecordings (op "load"), ended
EnsureDone(op, result) == [NoOp EXCEPT !.op = op, !.result = result]

\* getInfoAsync resolves: return if the directory exists, else call
\* makeDirectoryAsync
ensureDirExists_getInfo ==
    /\ \E t \in BagToSet(ensureTasks) :
        /\ t.pc = "info"
        /\ ensureTasks' = IF dirExists THEN BagRemove(ensureTasks, t)
                          ELSE BagAdd(BagRemove(ensureTasks, t), [pc |-> "mkdir"])
    /\ UNCHANGED <<recording, sound, isRecording, isPlaying, playingUri, recordings,
                   permissionResponse, audioMode, openRecordings, tempFiles, loaded,
                   dirExists, files, now, os, startTasks, stopTasks, playTasks,
                   deleteTasks, loadTasks, faults, mounted, pre>>
    /\ Quiet

\* makeDirectoryAsync resolves: it creates the directory, or rejects when the
\* directory is already there (the rejection is not caught)
ensureDirExists_makeDirectory ==
    /\ \E t \in BagToSet(ensureTasks) :
        /\ t.pc = "mkdir"
        /\ ensureTasks' = BagRemove(ensureTasks, t)
    /\ dirExists' = TRUE
    /\ lastDone' = EnsureDone("ensure", IF dirExists THEN "mkdirRejected" ELSE "created")
    /\ alert' = "none"
    /\ UNCHANGED <<recording, sound, isRecording, isPlaying, playingUri, recordings,
                   permissionResponse, audioMode, openRecordings, tempFiles, loaded,
                   files, now, os, startTasks, stopTasks, playTasks, deleteTasks,
                   loadTasks, faults, mounted, pre>>

\* ------------------------------------------------------- loadRecordings
\* a call of loadRecordings(): it runs to its first await, getInfoAsync
\* inside ensureDirExists
loadRecordings(tasks) == BagAdd(tasks, LoadTask("info", <<>>))

CanLoad == BagCardinality(loadTasks) < MaxLoads

\* a variant whose catch also empties the list: setRecordings([])
loadRecordings_catch_clears(list) == <<>>

\* the list after the catch of loadRecordings, which only logs the error
loadRecordings_catch(list) == list

\* a rejected await inside loadRecordings ends in its catch
loadRecordings_fails(result) ==
    /\ recordings' = loadRecordings_catch(recordings)
    /\ lastDone' = EnsureDone("load", result)
    /\ alert' = "none"

\* getInfoAsync resolves inside ensureDirExists: read the directory if it
\* exists, else create it first; a rejection ends in the catch
loadRecordings_getInfo ==
    /\ \E t \in BagToSet(loadTasks), ok \in Outcomes :
        /\ t.pc = "info"
        /\ IF ~ok
           THEN /\ loadTasks' = BagRemove(loadTasks, t)
                /\ loadRecordings_fails("infoRejected")
           ELSE /\ loadTasks' = BagAdd(BagRemove(loadTasks, t),
                                       LoadTask(IF dirExists THEN "read" ELSE "mkdir", <<>>))
                /\ UNCHANGED recordings
                /\ Quiet
    /\ UNCHANGED <<recording, sound, isRecording, isPlaying, playingUri,
                   permissionResponse, audioMode, openRecordings, tempFiles, loaded,
                   dirExists, files, now, os, startTasks, stopTasks, playTasks,
                   deleteTasks, ensureTasks, pre, faults, mounted>>

\* makeDirectoryAsync resolves inside ensureDirExists: on success go on to
\* read; it rejects when the directory is already there, which ends in the catch
loadRecordings_makeDirectory ==
    /\ \E t \in BagToSet(loadTasks) :
        /\ t.pc = "mkdir"
        /\ IF dirExists
           THEN /\ loadTasks' = BagRemove(loadTasks, t)
                /\ loadRecordings_fails("mkdirRejected")
           ELSE /\ loadTasks' = BagAdd(BagRemove(loadTasks, t), LoadTask("read", <<>>))
                /\ UNCHANGED recordings
                /\ Quiet
    /\ dirExists' = TRUE
    /\ UNCHANGED <<recording, sound, isRecording, isPlaying, playingUri,
                   permissionResponse, audioMode, openRecordings, tempFiles, loaded,
                   files, now, os, startTasks, stopTasks, playTasks, deleteTasks,
                   ensureTasks, faults, mounted, pre>>

\* the platform performs readDirectoryAsync: it enumerates the names in an
\* order of its own, or rejects (no directory, or an I/O error)
loadRecordings_readDirectory ==
    /\ \E t \in BagToSet(loadTasks), ok \in Outcomes :
        /\ t.pc = "read"
        /\ IF ok /\ dirExists
           THEN /\ \E names \in Enumerations(DirNames) :
                     loadTasks' = BagAdd(BagRemove(loadTasks, t), LoadTask("publish", names))
                /\ UNCHANGED recordings
                /\ Quiet
           ELSE /\ loadTasks' = BagRemove(loadTasks, t)
                /\ loadRecordings_fails("readRejected")
    /\ UNCHANGED <<recording, sound, isRecording, isPlaying, playingUri,
                   permissionResponse, audioMode, openRecordings, tempFiles, loaded,
                   dirExists, files, now, os, startTasks, stopTasks, playTasks,
                   deleteTasks, ensureTasks, pre, faults, mounted>>

\* the continuation after readDirectoryAsync: map, sort, setRecordings
loadRecordings_setRecordings ==
    /\ \E t \in BagToSet(loadTasks) :
        /\ t.pc = "publish"
        /\ recordings' = fileList(t.names, now)
        /\ loadTasks' = BagRemove(loadTasks, t)
        /\ lastDone' = [op |-> "load", uri |-> NoUri,
                        result |-> IF recordings' = [i \in 1..Len(t.names) |->
                                                        fileEntry(t.names[i], now)]
                                   THEN "kept" ELSE "reordered"]
    /\ UNCHANGED <<recording, sound, isRecording, isPlaying, playingUri,
                   permissionResponse, audioMode, openRecordings, tempFiles, loaded,
                   dirExists, files, now, os, startTasks, stopTasks, playTasks,
                   deleteTasks, ensureTasks, faults, mounted, pre>>
    /\ alert' = "none"

\* ------------------------------------------------------- startRecording
StartTask(pc, denied) == [pc |-> pc, denied |-> denied]

StartDone(result) == [NoOp EXCEPT !.op = "start", !.result = result]

\* the catch of startRecording: console.error and Alert.alert
startRecording_catch ==
    /\ alert' = "Failed to start recording"
    /\ lastDone' = StartDone("failed")

\* the handles of Audio.Recording objects something still refers to
RecordingsInUse ==
    openRecordings \cup tempFiles \cup {recording}
        \cup {t.rec : t \in BagToSet(stopTasks)} \cup {f.content : f \in files}

FreeRecordings == (1..MaxRecordings) \ RecordingsInUse

\* the record button is pressed while it shows the microphone
\* (onPress = isRecording ? stopRecording : startRecording): the handler runs
\* to its first await
startRecording ==
    /\ mounted
    /\ ~isRecording
    /\ BagCardinality(startTasks) < MaxStarts
    /\ IF permissionResponse = "null"
       THEN /\ startRecording_catch
            /\ UNCHANGED startTasks
       ELSE /\ startTasks' = BagAdd(startTasks,
                 StartTask(IF permissionResponse # "granted" THEN "perm" ELSE "mode", FALSE))
            /\ Quiet
    /\ UNCHANGED <<recording, sound, isRecording, isPlaying, playingUri, recordings,
                   permissionResponse, audioMode, openRecordings, tempFiles, loaded,
                   dirExists, files, now, os, stopTasks, playTasks, deleteTasks,
                   loadTasks, ensureTasks, faults, mounted, pre>>

\* requestPermission() resolves with the user's answer, which the handler
\* does not read, or rejects
startRecording_requestPermission ==
    /\ \E t \in BagToSet(startTasks), r \in {"granted", "denied"} \cup (IF faults THEN {"error"} ELSE {}) :
        /\ t.pc = "perm"
        /\ permissionResponse = "granted" => r # "denied"
        /\ IF r = "error"
           THEN /\ startTasks' = BagRemove(startTasks, t)
                /\ startRecording_catch
                /\ UNCHANGED permissionResponse
           ELSE /\ startTasks' = BagAdd(BagRemove(startTasks, t),
                                        StartTask("mode", r = "denied"))
                /\ permissionResponse' = r
                /\ Quiet
    /\ UNCHANGED <<recording, sound, isRecording, isPlaying, playingUri, recordings,
                   audioMode, openRecordings, tempFiles, loaded, dirExists, files,
                   now, os, stopTasks, playTasks, deleteTasks, loadTasks, ensureTasks, pre, faults, mounted>>

\* Audio.setAudioModeAsync({allowsRecordingIOS: true, ...}) resolves or rejects
startRecording_setAudioMode ==
    /\ \E t \in BagToSet(startTasks), ok \in Outcomes :
        /\ t.pc = "mode"
        /\ IF ok
           THEN /\ startTasks' = BagAdd(BagRemove(startTasks, t),
                                        StartTask("create", t.denied))
                /\ audioMode' = TRUE
                /\ Quiet
           ELSE /\ startTasks' = BagRemove(startTasks, t)
                /\ startRecording_catch
                /\ UNCHANGED audioMode
    /\ UNCHANGED <<recording, sound, isRecording, isPlaying, playingUri, recordings,
                   permissionResponse, openRecordings, tempFiles, loaded, dirExists,
                   files, now, os, stopTasks, playTasks, deleteTasks, loadTasks,
                   ensureTasks, pre, faults, mounted>>

\* the platform opens a capture device only with the microphone permission
deviceOpens(ok) == ok /\ permissionResponse = "granted" /\ FreeRecordings # {}

\* Audio.Recording.createAsync resolves (setRecording, setIsRecording(true))
\* or rejects
startRecording_createAsync ==
    /\ \E t \in BagToSet(startTasks), ok \in Outcomes :
        /\ t.pc = "create"
        /\ startTasks' = BagRemove(startTasks, t)
        /\ IF deviceOpens(ok)
           THEN LET h == CHOOSE x \in FreeRecordings : \A y \in FreeRecordings : x <= y
                IN /\ openRecordings' = openRecordings \cup {h}
                   /\ recording' = h
                   /\ isRecording' = TRUE
                   /\ alert' = "none"
                   /\ lastDone' = StartDone("recording")
           ELSE /\ startRecording_catch
                /\ UNCHANGED <<openRecordings, recording, isRecording>>
    /\ UNCHANGED <<sound, isPlaying, playingUri, recordings, permissionResponse,
                   audioMode, tempFiles, loaded, dirExists, files, now, os,
                   stopTasks, playTasks, deleteTasks, loadTasks, ensureTasks, pre, faults, mounted>>

\* -------------------------------------------------------- stopRecording
StopTask(pc, rec, uri) == [pc |-> pc, rec |-> rec, uri |-> uri]

StopDone(result, uri) == [NoOp EXCEPT !.op = "stop", !.result = result, !.uri = uri]

\* a variant that calls the wrong setter: setIsPlaying(false)
stopRecording_setFlag_wrongSetter == [isRecording |-> isRecording, isPlaying |-> FALSE]

\* a variant that clears the flag only once the device has closed: the button
\* keeps offering stop while stopAndUnloadAsync is pending
stopRecording_setFlag_afterAwait == [isRecording |-> isRecording, isPlaying |-> isPlaying]

\* setIsRecording(false): the flags after it
stopRecording_setFlag == [isRecording |-> FALSE, isPlaying |-> isPlaying]

\* the record button is pressed while it shows stop: return if the captured
\* recording is null, else setIsRecording(false) and call stopAndUnloadAsync
stopRecording ==
    /\ mounted
    /\ isRecording
    /\ BagCardinality(stopTasks) < MaxStops
    /\ IF recording = NoHandle
       THEN UNCHANGED <<isRecording, isPlaying, stopTasks>>
       ELSE /\ isRecording' = stopRecording_setFlag.isRecording
            /\ isPlaying' = stopRecording_setFlag.isPlaying
            /\ stopTasks' = BagAdd(stopTasks, StopTask("unload", recording, NoUri))
    /\ UNCHANGED <<recording, sound, playingUri, recordings,
                   permissionResponse, audioMode, openRecordings, tempFiles, loaded,
                   dirExists, files, now, os, startTasks, playTasks, deleteTasks,
                   loadTasks, ensureTasks, faults, mounted, pre>>
    /\ Quiet

\* stopAndUnloadAsync resolves: the device is closed and its artifact is at
\* getURI(); setRecording(null), the new name is made from Date.now() and
\* moveAsync is called.  It rejects (outside any try) for a recording that is
\* not open, or on a device error.
stopRecording_stopAndUnload ==
    /\ \E t \in BagToSet(stopTasks), ok \in Outcomes :
        /\ t.pc = "unload"
        /\ IF ok /\ t.rec \in openRecordings
           THEN /\ openRecordings' = openRecordings \ {t.rec}
                /\ tempFiles' = tempFiles \cup {t.rec}
                /\ recording' = NoHandle
                /\ stopTasks' = BagAdd(BagRemove(stopTasks, t),
                     StopTask("move", t.rec, UriOf(newFilename(now, getFileExtension(os)))))
                /\ lastDone' = NoOp
           ELSE /\ stopTasks' = BagRemove(stopTasks, t)
                /\ lastDone' = StopDone("rejected", NoUri)
                /\ UNCHANGED <<openRecordings, tempFiles, recording>>
    /\ alert' = "none"
    /\ UNCHANGED <<sound, isRecording, isPlaying, playingUri, recordings,
                   permissionResponse, audioMode, loaded, dirExists, files, now, os,
                   startTasks, playTasks, deleteTasks, loadTasks, ensureTasks, pre, faults, mounted>>

\* moveAsync moves the artifact to its new name, replacing or refusing a file
\* that already has the name, and loadRecordings() is called; or it rejects,
\* which is logged
stopRecording_moveAsync ==
    /\ \E t \in BagToSet(stopTasks), ok \in Outcomes, replace \in BOOLEAN :
        /\ t.pc = "move"
        /\ stopTasks' = BagRemove(stopTasks, t)
        /\ IF /\ ok
              /\ t.rec \in tempFiles
              /\ dirExists
              /\ (t.uri \in FileUris => replace)
           THEN /\ CanLoad
                /\ tempFiles' = tempFiles \ {t.rec}
                /\ files' = {f \in files : f.uri # t.uri}
                               \cup {[uri |-> t.uri, content |-> t.rec]}
                /\ loadTasks' = loadRecordings(loadTasks)
                /\ lastDone' = StopDone("saved", t.uri)
           ELSE /\ lastDone' = StopDone("failed", t.uri)
                /\ UNCHANGED <<tempFiles, files, loadTasks>>
    /\ alert' = "none"
    /\ UNCHANGED <<recording, sound, isRecording, isPlaying, playingUri, recordings,
                   permissionResponse, audioMode, openRecordings, loaded, dirExists,
                   now, os, startTasks, playTasks, deleteTasks, ensureTasks, pre, faults, mounted>>

\* ------------------------------------------------------------ playSound
\* the Playback Session as the claims name its states
PlaybackState ==
    IF loaded = {} /\ playingUri = NoUri /\ ~isPlaying THEN "Empty"
    ELSE IF sound # NoHandle /\ isPlaying
            /\ loaded = {[id |-> sound, uri |-> playingUri, playing |-> TRUE]}
         THEN "Playing"
    ELSE IF sound # NoHandle /\ ~isPlaying
            /\ loaded = {[id |-> sound, uri |-> playingUri, playing |-> FALSE]}
         THEN "Paused"
    ELSE "Other"

\* an invocation of playSound or deleteRecording: its position, its argument
\* and the sound handle it captured
SessionTask(pc, uri, snd) == [pc |-> pc, uri |-> uri, snd |-> snd]

SessionDone(op, result, t) == [op |-> op, uri |-> t.uri, result |-> result]

SessionIdle == playTasks = EmptyBag /\ deleteTasks = EmptyBag

\* the handles of Audio.Sound objects something still refers to
SoundsInUse ==
    {s.id : s \in loaded} \cup {sound}
        \cup {t.snd : t \in BagToSet(playTasks)}
        \cup {t.snd : t \in BagToSet(deleteTasks)}

FreeSounds == (1..MaxSounds) \ SoundsInUse

\* the catch of playSound: console.error and Alert.alert
playSound_catch(t, result) ==
    /\ alert' = "Could not play audio file"
    /\ lastDone' = SessionDone("play", result, t)

\* a variant that loads the new sound without unloading the previous one
playSound_branch_keepsPrevious(uri) ==
    IF sound # NoHandle /\ playingUri = uri /\ isPlaying THEN "pause" ELSE "create"

\* a variant without the toggle: the same file is unloaded and loaded again
playSound_branch_alwaysReloads(uri) ==
    IF sound # NoHandle THEN "unload" ELSE "create"

\* a variant that keeps a paused sound of the same file loaded
playSound_branch_keepsPaused(uri) ==
    IF sound # NoHandle /\ playingUri = uri /\ isPlaying THEN "pause"
    ELSE IF sound # NoHandle /\ playingUri # uri THEN "unload"
    ELSE "create"

\* which await playSound(uri) reaches first
playSound_branch(uri) ==
    IF sound # NoHandle /\ playingUri = uri /\ isPlaying THEN "pause"
    ELSE IF sound # NoHandle THEN "unload"
    ELSE "create"

\* the play button of a listed recording is pressed: the handler runs to its
\* first await
playSound ==
    /\ mounted
    /\ BagCardinality(playTasks) + BagCardinality(deleteTasks) < MaxPresses
    /\ \E uri \in ListedUris :
        /\ playTasks' = BagAdd(playTasks, SessionTask(playSound_branch(uri), uri, sound))
        /\ pre' = [from |-> PlaybackState, prevUri |-> playingUri, solo |-> SessionIdle,
                   chain |-> /\ SessionIdle
                             /\ lastDone = [op |-> "play", uri |-> uri, result |-> "loaded"]
                             /\ pre.solo /\ pre.from = "Empty"]
    /\ UNCHANGED <<recording, sound, isRecording, isPlaying, playingUri, recordings,
                   permissionResponse, audioMode, openRecordings, tempFiles, loaded,
                   dirExists, files, now, os, startTasks, stopTasks, deleteTasks,
                   loadTasks, ensureTasks, faults, mounted>>
    /\ Quiet

\* sound.pauseAsync() resolves (setIsPlaying(false)), or rejects because the
\* captured sound is not loaded
playSound_pauseAsync ==
    /\ \E t \in BagToSet(playTasks) :
        /\ t.pc = "pause"
        /\ playTasks' = BagRemove(playTasks, t)
        /\ IF \E s \in loaded : s.id = t.snd
           THEN /\ loaded' = {IF s.id = t.snd THEN [s EXCEPT !.playing = FALSE] ELSE s :
                                s \in loaded}
                /\ isPlaying' = FALSE
                /\ alert' = "none"
                /\ lastDone' = SessionDone("play", "paused", t)
           ELSE /\ playSound_catch(t, "pauseRejected")
                /\ UNCHANGED <<loaded, isPlaying>>
    /\ UNCHANGED <<recording, sound, isRecording, playingUri, recordings,
                   permissionResponse, audioMode, openRecordings, tempFiles,
                   dirExists, files, now, os, startTasks, stopTasks, deleteTasks,
                   loadTasks, ensureTasks, faults, mounted, pre>>

\* the captured sound's unloadAsync() resolves and createAsync is called
playSound_unloadAsync ==
    /\ \E t \in BagToSet(playTasks) :
        /\ t.pc = "unload"
        /\ loaded' = {s \in loaded : s.id # t.snd}
        /\ playTasks' = BagAdd(BagRemove(playTasks, t), [t EXCEPT !.pc = "create"])
    /\ UNCHANGED <<recording, sound, isRecording, isPlaying, playingUri, recordings,
                   permissionResponse, audioMode, openRecordings, tempFiles,
                   dirExists, files, now, os, startTasks, stopTasks, deleteTasks,
                   loadTasks, ensureTasks, faults, mounted, pre>>
    /\ Quiet

\* the platform loads a sound only from a file that exists
soundLoads(ok, uri) == ok /\ uri \in FileUris /\ FreeSounds # {}

\* Audio.Sound.createAsync({uri}, {shouldPlay: true}) resolves (setSound,
\* setPlayingUri, setIsPlaying(true), the status callback is set) or rejects
playSound_createAsync ==
    /\ \E t \in BagToSet(playTasks), ok \in Outcomes :
        /\ t.pc = "create"
        /\ playTasks' = BagRemove(playTasks, t)
        /\ IF soundLoads(ok, t.uri)
           THEN LET h == CHOOSE x \in FreeSounds : \A y \in FreeSounds : x <= y
                IN /\ loaded' = loaded \cup {[id |-> h, uri |-> t.uri, playing |-> TRUE]}
                   /\ sound' = h
                   /\ playingUri' = t.uri
                   /\ isPlaying' = TRUE
                   /\ alert' = "none"
                   /\ lastDone' = SessionDone("play", "loaded", t)
           ELSE /\ playSound_catch(t, "loadRejected")
                /\ UNCHANGED <<loaded, sound, playingUri, isPlaying>>
    /\ UNCHANGED <<recording, isRecording, recordings, permissionResponse, audioMode,
                   openRecordings, tempFiles, dirExists, files, now, os, startTasks,
                   stopTasks, deleteTasks, loadTasks, ensureTasks, pre, faults, mounted>>

\* a playing sound reaches its end: the status callback runs with
\* didJustFinish (setIsPlaying(false), setPlayingUri(null))
didJustFinish ==
    /\ \E s \in loaded :
        /\ s.playing
        /\ loaded' = (loaded \ {s}) \cup {[s EXCEPT !.playing = FALSE]}
        /\ lastDone' = [op |-> "finish", uri |-> s.uri, result |-> "finished"]
    /\ isPlaying' = FALSE
    /\ playingUri' = NoUri
    /\ alert' = "none"
    /\ pre' = [pre EXCEPT !.chain = FALSE]
    /\ UNCHANGED <<recording, sound, isRecording, recordings, permissionResponse,
                   audioMode, openRecordings, tempFiles, dirExists, files, now, os,
                   startTasks, stopTasks, playTasks, deleteTasks, loadTasks,
                   ensureTasks, faults, mounted>>

\* ------------------------------------------------------ deleteRecording
\* a variant that releases only a sound that is playing
deleteRecording_releases_playingOnly(uri) ==
    sound # NoHandle /\ playingUri = uri /\ isPlaying

\* if (sound && playingUri === uri)
deleteRecording_releases(uri) == sound # NoHandle /\ playingUri = uri

\* the delete button of a listed recording is pressed: the handler runs to
\* its first await
deleteRecording ==
    /\ mounted
    /\ BagCardinality(playTasks) + BagCardinality(deleteTasks) < MaxPresses
    /\ \E uri \in ListedUris :
        /\ deleteTasks' = BagAdd(deleteTasks,
             SessionTask(IF deleteRecording_releases(uri) THEN "unload" ELSE "delete",
                         uri, sound))
        /\ pre' = [from |-> PlaybackState, prevUri |-> playingUri, solo |-> SessionIdle,
                   chain |-> FALSE]
    /\ UNCHANGED <<recording, sound, isRecording, isPlaying, playingUri, recordings,
                   permissionResponse, audioMode, openRecordings, tempFiles, loaded,
                   dirExists, files, now, os, startTasks, stopTasks, playTasks,
                   loadTasks, ensureTasks, faults, mounted>>
    /\ Quiet

\* the captured sound's unloadAsync() resolves: setPlayingUri(null),
\* setIsPlaying(false), and deleteAsync is called
deleteRecording_unloadAsync ==
    /\ \E t \in BagToSet(deleteTasks) :
        /\ t.pc = "unload"
        /\ loaded' = {s \in loaded : s.id # t.snd}
        /\ deleteTasks' = BagAdd(BagRemove(deleteTasks, t), [t EXCEPT !.pc = "delete"])
    /\ playingUri' = NoUri
    /\ isPlaying' = FALSE
    /\ UNCHANGED <<recording, sound, isRecording, recordings, permissionResponse,
                   audioMode, openRecordings, tempFiles, dirExists, files, now, os,
                   startTasks, stopTasks, playTasks, loadTasks, ensureTasks, faults, mounted, pre>>
    /\ Quiet

\* a variant in which deleting a file that is not there succeeds
\* (deleteAsync(uri, {idempotent: true}))
deleteAsync_removes_idempotent(ok, uri) == ok

\* deleteAsync(uri) resolves only for a file that exists
deleteAsync_removes(ok, uri) == ok /\ uri \in FileUris

\* deleteAsync(uri) removes the file and loadRecordings() is called; it
\* rejects for a file that does not exist or on an I/O error, which is logged
deleteRecording_deleteAsync ==
    /\ \E t \in BagToSet(deleteTasks), ok \in Outcomes :
        /\ t.pc = "delete"
        /\ deleteTasks' = BagRemove(deleteTasks, t)
        /\ IF deleteAsync_removes(ok, t.uri)
           THEN /\ CanLoad
                /\ files' = {f \in files : f.uri # t.uri}
                /\ loadTasks' = loadRecordings(loadTasks)
                /\ lastDone' = SessionDone("delete", "deleted", t)
           ELSE /\ lastDone' = SessionDone("delete", "failed", t)
                /\ UNCHANGED <<files, loadTasks>>
    /\ alert' = "none"
    /\ UNCHANGED <<recording, sound, isRecording, isPlaying, playingUri, recordings,
                   permissionResponse, audioMode, openRecordings, tempFiles, loaded,
                   dirExists, now, os, startTasks, stopTasks, playTasks, ensureTasks, pre, faults, mounted>>

\* -------------------------------------------------------------- unmount
\* the sound the cleanup of the mount effect closes over: the effect has no
\* dependencies ([]), so it is the sound of the first render, useState(null)
cleanup_sound == NoHandle

\* the component unmounts: the cleanup unloads the sound it closed over, if
\* it is not null
unmount ==
    /\ mounted
    /\ mounted' = FALSE
    /\ loaded' = IF cleanup_sound # NoHandle
                 THEN {s \in loaded : s.id # cleanup_sound}
                 ELSE loaded
    /\ lastDone' = [NoOp EXCEPT !.op = "unmount"]
    /\ alert' = "none"
    /\ UNCHANGED <<recording, sound, isRecording, isPlaying, playingUri, recordings,
                   permissionResponse, audioMode, openRecordings, tempFiles,
                   dirExists, files, now, os, startTasks, stopTasks, playTasks,
                   deleteTasks, loadTasks, ensureTasks, faults, pre>>

\* ------------------------------------------------------- specification
Next ==
    \/ Tick
    \/ usePermissions
    \/ ensureDirExists_getInfo
    \/ ensureDirExists_makeDirectory
    \/ loadRecordings_getInfo
    \/ loadRecordings_makeDirectory
    \/ loadRecordings_readDirectory
    \/ loadRecordings_setRecordings
    \/ startRecording
    \/ startRecording_requestPermission
    \/ startRecording_setAudioMode
    \/ startRecording_createAsync
    \/ stopRecording
    \/ stopRecording_stopAndUnload
    \/ stopRecording_moveAsync
    \/ playSound
    \/ playSound_pauseAsync
    \/ playSound_unloadAsync
    \/ playSound_createAsync
    \/ didJustFinish
    \/ deleteRecording
    \/ deleteRecording_unloadAsync
    \/ deleteRecording_deleteAsync
    \/ unmount

Spec == Init /\ [][Next]_vars

\* the capture session, with the catalog it commits to
CaptureNext ==
    \/ usePermissions
    \/ ensureDirExists_getInfo
    \/ ensureDirExists_makeDirectory
    \/ loadRecordings_getInfo
    \/ loadRecordings_makeDirectory
    \/ loadRecordings_readDirectory
    \/ loadRecordings_setRecordings
    \/ startRecording
    \/ startRecording_requestPermission
    \/ startRecording_setAudioMode
    \/ startRecording_createAsync
    \/ stopRecording
    \/ stopRecording_stopAndUnload
    \/ stopRecording_moveAsync

InitCapture == Init /\ os = "ios" /\ files = {} /\ faults
SpecCapture == InitCapture /\ [][CaptureNext]_vars

\* the playback session over the recordings of earlier runs, with the deletes
\* that release it
PlaybackNext ==
    \/ ensureDirExists_getInfo
    \/ loadRecordings_getInfo
    \/ loadRecordings_readDirectory
    \/ loadRecordings_setRecordings
    \/ playSound
    \/ playSound_pauseAsync
    \/ playSound_unloadAsync
    \/ playSound_createAsync
    \/ didJustFinish
    \/ deleteRecording
    \/ deleteRecording_unloadAsync
    \/ deleteRecording_deleteAsync

InitPlayback == Init /\ os = "ios" /\ files = OldRecordings(os) /\ faults
SpecPlayback == InitPlayback /\ [][PlaybackNext]_vars

\* the catalog: commits one at a time with the permission granted, deletes
\* one at a time, and the reloads they start, in a run where no I/O call is
\* rejected; the clock is let advance while a commit is pending
CatalogNext ==
    \/ Tick /\ stopTasks # EmptyBag
    \/ usePermissions /\ permissionResponse' = "granted"
    \/ ensureDirExists_getInfo
    \/ ensureDirExists_makeDirectory
    \/ loadRecordings_getInfo
    \/ loadRecordings_makeDirectory
    \/ loadRecordings_readDirectory
    \/ loadRecordings_setRecordings
    \/ startRecording /\ startTasks = EmptyBag /\ stopTasks = EmptyBag
    \/ startRecording_setAudioMode
    \/ startRecording_createAsync
    \/ stopRecording
    \/ stopRecording_stopAndUnload
    \/ stopRecording_moveAsync
    \/ deleteRecording /\ deleteTasks = EmptyBag
    \/ deleteRecording_deleteAsync

InitCatalog ==
    Init /\ os = "android" /\ ~faults /\ files \subseteq OldRecordings(os)
         /\ Cardinality(files) <= 1
SpecCatalog == InitCatalog /\ [][CatalogNext]_vars

\* the listing of a directory that also holds files the app did not name,
\* with deletes of listed files and the reloads they start
ListingNext ==
    \/ Tick /\ loadTasks # EmptyBag
    \/ loadRecordings_getInfo
    \/ loadRecordings_readDirectory
    \/ loadRecordings_setRecordings
    \/ deleteRecording /\ SessionIdle
    \/ deleteRecording_deleteAsync

InitListing ==
    Init /\ os = "android" /\ dirExists /\ Cardinality(files) <= 3
SpecListing == InitListing /\ [][ListingNext]_vars

\* the capture session with one press of the record button handled at a time
SerialCaptureNext ==
    \/ usePermissions
    \/ ensureDirExists_getInfo
    \/ ensureDirExists_makeDirectory
    \/ loadRecordings_getInfo
    \/ loadRecordings_makeDirectory
    \/ loadRecordings_readDirectory
    \/ loadRecordings_setRecordings
    \/ startRecording /\ startTasks = EmptyBag /\ stopTasks = EmptyBag
    \/ startRecording_requestPermission
    \/ startRecording_setAudioMode
    \/ startRecording_createAsync
    \/ stopRecording /\ startTasks = EmptyBag /\ stopTasks = EmptyBag
    \/ stopRecording_stopAndUnload
    \/ stopRecording_moveAsync

SpecSerialCapture == InitCapture /\ [][SerialCaptureNext]_vars

\* the capture session and the playback session side by side, one press of
\* each kind handled at a time, in a run where no I/O call is rejected
SessionsNext ==
    \/ usePermissions /\ permissionResponse' = "granted"
    \/ loadRecordings_getInfo
    \/ loadRecordings_readDirectory
    \/ loadRecordings_setRecordings
    \/ startRecording /\ startTasks = EmptyBag /\ stopTasks = EmptyBag
    \/ startRecording_setAudioMode
    \/ startRecording_createAsync
    \/ stopRecording /\ startTasks = EmptyBag /\ stopTasks = EmptyBag
    \/ stopRecording_stopAndUnload
    \/ stopRecording_moveAsync
    \/ playSound /\ SessionIdle
    \/ playSound_pauseAsync
    \/ playSound_unloadAsync
    \/ playSound_createAsync
    \/ didJustFinish

InitSessions ==
    Init /\ os = "ios" /\ ~faults /\ files \subseteq OldRecordings(os)
         /\ Cardinality(files) = 1
SpecSessions == InitSessions /\ [][SessionsNext]_vars

\* the playback session, one press handled at a time, and the unmount
LifecycleNext ==
    \/ ensureDirExists_getInfo
    \/ loadRecordings_getInfo
    \/ loadRecordings_readDirectory
    \/ loadRecordings_setRecordings
    \/ playSound /\ SessionIdle
    \/ playSound_pauseAsync
    \/ playSound_unloadAsync
    \/ playSound_createAsync
    \/ didJustFinish
    \/ unmount

InitLifecycle == Init /\ os = "ios" /\ ~faults /\ files = OldRecordings(os)
SpecLifecycle == InitLifecycle /\ [][LifecycleNext]_vars

\* ---------------------------------------------------------------- claims
\* the latest invocation of playSound or deleteRecording has run alone and
\* the step just taken completed it
CompletedAlone(op) == lastDone.op = op /\ pre.solo

\* the timestamp a recording's name was made from, found by formatting
TimestampOf(name) ==
    CHOOSE ts \in 0..(ClockStart + ClockTicks) :
        \E platform \in {"ios", "android", "web"} :
            name = newFilename(ts, getFileExtension(platform))

\* C1: at every instant at most one capture device (Audio.Recording) is open:
\* a start pressed while an earlier start or a stop is still suspended opens
\* no second one.
C1_OneCaptureResource == Cardinality(openRecordings) <= 1

\* C2: at every instant at most one playback resource (Audio.Sound) is
\* loaded, whatever toggles overlap.
C2_OnePlaybackResource == Cardinality(loaded) <= 1

C4_SwitchReleasesPrevious ==
    /\ \A t \in BagToSet(playTasks) :
         (/\ pre.solo /\ pre.from = "Playing" /\ pre.prevUri # t.uri
          /\ t.pc = "create")
         => loaded = {}
    /\ (/\ CompletedAlone("play") /\ lastDone.result = "loaded"
        /\ pre.from = "Playing" /\ pre.prevUri # lastDone.uri)
       => /\ playingUri = lastDone.uri
          /\ isPlaying
          /\ loaded = {[id |-> sound, uri |-> lastDone.uri, playing |-> TRUE]}

C4_Witness ==
    /\ CompletedAlone("play") /\ lastDone.result = "loaded"
    /\ pre.from = "Playing" /\ pre.prevUri # lastDone.uri

\* C5: a playSound(id) that from Empty loaded id, directly followed by a
\* second playSound(id) with no end of playback between them, ends paused:
\* playingUri = id, isPlaying = false and id's one sound still loaded.
C5_ToggleTwicePauses ==
    (pre.chain /\ lastDone.op = "play")
    => /\ playingUri = lastDone.uri
       /\ ~isPlaying
       /\ loaded = {[id |-> sound, uri |-> lastDone.uri, playing |-> FALSE]}

C5_Witness == pre.chain /\ lastDone.op = "play" /\ lastDone.result = "paused"

\* C6: when the sound of a playSound that ran alone reports didJustFinish,
\* the session becomes Empty: no sound stays loaded, playingUri is null and
\* isPlaying is false.
C6_FinishReleases ==
    (lastDone.op = "finish" /\ pre.solo /\ SessionIdle) => PlaybackState = "Empty"

\* C7: when createAsync rejects in a playSound that ran alone, from whatever
\* playback state the call was made, the session is Empty and the failure is
\* reported.
C7_LoadFailureEmpties ==
    (CompletedAlone("play") /\ lastDone.result = "loadRejected")
    => PlaybackState = "Empty" /\ alert = "Could not play audio file"

\* C8: a startRecording whose permission request ended denied acquires
\* nothing: it does not go on to configure the audio mode or to open a
\* capture device, and the audio mode is configured for recording only with
\* the permission granted.
C8_DeniedAcquiresNothing ==
    /\ \A t \in BagToSet(startTasks) : ~t.denied
    /\ audioMode => permissionResponse = "granted"

\* C9: once no commit, delete or reload is pending (and none was rejected),
\* the visible list holds exactly the files of the directory, one entry each.
C9_ListMatchesDirectory ==
    (/\ ~faults
     /\ loadTasks = EmptyBag /\ stopTasks = EmptyBag /\ deleteTasks = EmptyBag
     /\ ensureTasks = EmptyBag)
    => ListedUris = FileUris /\ Len(recordings) = Cardinality(FileUris)

\* C10: the list, and the list any pending enumeration of the directory will
\* publish, is in strictly descending order of the timestamps the names were
\* made from.
StrictlyDescending(list) ==
    \A i, j \in 1..Len(list) :
        i < j => TimestampOf(list[i].name) > TimestampOf(list[j].name)

C10_NewestFirst ==
    /\ StrictlyDescending(recordings)
    /\ \A t \in BagToSet(loadTasks) :
         t.pc = "publish" => StrictlyDescending(fileList(t.names, now))

C10_Witness ==
    /\ lastDone.op = "load" /\ lastDone.result = "reordered"
    /\ Len(recordings) = 3
    /\ \E f \in files : f.content # NoHandle

\* C11: a publish of loadRecordings lists exactly one entry for every name
\* the directory enumeration returned, whatever the names look like.
C11_EveryNameListed ==
    [][\A t \in BagToSet(loadTasks) :
          (/\ t.pc = "publish" /\ loadTasks' = BagRemove(loadTasks, t)
           /\ lastDone'.op = "load" /\ lastDone'.result \in {"kept", "reordered"})
          => /\ Len(recordings') = Len(t.names)
             /\ \A k \in 1..Len(t.names) :
                  Cardinality({i \in 1..Len(recordings') :
                                  recordings'[i].name = t.names[k]}) = 1]_vars

C11_Witness ==
    /\ lastDone.op = "load" /\ lastDone.result \in {"kept", "reordered"}
    /\ Len(recordings) = 3
    /\ \E i \in 1..Len(recordings) : recordings[i].uri \in {f.uri : f \in ForeignFiles}

\* the segment of a name between its first '_' and the next '.', if any
TimestampSegment(name) ==
    IF Len(Split(name, "_")) < 2 THEN <<>> ELSE Split(Split(name, "_")[2], ".")[1]

\* the segment is there and is a number
HasTimestamp(name) ==
    /\ TimestampSegment(name) # <<>>
    /\ \A i \in 1..Len(TimestampSegment(name)) : IsDigit(TimestampSegment(name)[i])

\* C12: in the list, every entry whose name has no timestamp segment or a
\* segment that is not a number carries a wall-clock time as its date and
\* comes before every entry with a timestamp, and the entries with a
\* timestamp are in descending order of it.
C12_SurrogateIsNow ==
    \A i, j \in 1..Len(recordings) :
        /\ ~HasTimestamp(recordings[i].name)
           => \E n \in ClockStart..now : recordings[i].date = NumVal(n)
        /\ (HasTimestamp(recordings[i].name) /\ ~HasTimestamp(recordings[j].name))
           => j < i
        /\ (HasTimestamp(recordings[i].name) /\ HasTimestamp(recordings[j].name) /\ i < j)
           => DigitsToNumber(TimestampSegment(recordings[i].name))
                > DigitsToNumber(TimestampSegment(recordings[j].name))

\* C13: when a step of startRecording or stopRecording ends in a failure
\* (a rejected permission request, audio-mode configuration, device open,
\* device close or file move), with one press handled at a time, the capture
\* session is Idle: recording is null and isRecording is false.
C13_FailureLeavesIdle ==
    (\/ lastDone.op = "start" /\ lastDone.result = "failed"
     \/ lastDone.op = "stop" /\ lastDone.result \in {"rejected", "failed"})
    => recording = NoHandle /\ ~isRecording

\* C14: no call of ensureDirExists, made directly at mount or inside
\* loadRecordings, fails because the directory already exists.
C14_EnsureNeverRejected == lastDone.result # "mkdirRejected"

\* C15: a call of loadRecordings that fails (getInfoAsync, makeDirectoryAsync
\* or readDirectoryAsync rejected) leaves the visible list exactly as it was,
\* and the list changes only when a call publishes the full list built from
\* the names it read.
C15_FailedListKeepsView ==
    [][/\ (lastDone'.op = "load"
           /\ lastDone'.result \in {"infoRejected", "mkdirRejected", "readRejected"})
          => recordings' = recordings
       /\ recordings' # recordings
          => \E t \in BagToSet(loadTasks) :
                /\ t.pc = "publish"
                /\ loadTasks' = BagRemove(loadTasks, t)
                /\ recordings' = fileList(t.names, now)]_vars

C15_Witness ==
    /\ lastDone.op = "load" /\ lastDone.result = "readRejected"
    /\ Len(recordings) >= 2

\* C16: when deleteAsync is called for a uri no file of the directory has,
\* the delete ends as failed, not as deleted: the directory and the visible
\* list are unchanged and no reload is started.
C16_MissingFileReported ==
    [][\A t \in BagToSet(deleteTasks) :
          (/\ t.pc = "delete" /\ deleteTasks' = BagRemove(deleteTasks, t)
           /\ t.uri \notin FileUris)
          => /\ lastDone' = SessionDone("delete", "failed", t)
             /\ files' = files
             /\ recordings' = recordings
             /\ loadTasks' = loadTasks]_vars

C16_Witness ==
    /\ lastDone.op = "delete" /\ lastDone.result = "failed"
    /\ lastDone.uri \notin FileUris
    /\ lastDone.uri \in ListedUris
    /\ ~faults

\* C17: every step of startRecording or stopRecording leaves the playback
\* state (sound, playingUri, isPlaying) unchanged, and every step of
\* playSound and of the status callback leaves the capture state (recording,
\* isRecording) unchanged.
C17_SessionsIndependent ==
    [][/\ (\/ startTasks' # startTasks \/ stopTasks' # stopTasks
           \/ lastDone'.op \in {"start", "stop"})
          => UNCHANGED playbackVars
       /\ (playTasks' # playTasks \/ lastDone'.op \in {"play", "finish"})
          => UNCHANGED captureVars]_vars

\* a stop is suspended at stopAndUnloadAsync while a sound plays and a
\* toggle is in flight
C17_Witness ==
    /\ \E t \in BagToSet(stopTasks) : t.pc = "unload"
    /\ lastDone.op = "none"
    /\ isPlaying /\ loaded # {}
    /\ playTasks # EmptyBag

\* C18: a commit (the move in stopRecording) removes or replaces no file the
\* directory already holds: every file is still there, with its content,
\* after the step.
C18_CommitKeepsFiles ==
    [][lastDone'.op = "stop" => \A f \in files : f \in files']_vars

\* C19: a playSound(id) invoked alone while id's sound is loaded and paused
\* has unloaded that sound when it calls createAsync, and when the load
\* succeeds id is playing from a newly loaded sound, the only one loaded.
C19_PausedIsReloaded ==
    /\ \A t \in BagToSet(playTasks) :
         (/\ pre.solo /\ pre.from = "Paused" /\ pre.prevUri = t.uri
          /\ t.pc = "create")
         => loaded = {}
    /\ (/\ CompletedAlone("play") /\ lastDone.result = "loaded"
        /\ pre.from = "Paused" /\ pre.prevUri = lastDone.uri)
       => /\ playingUri = lastDone.uri
          /\ isPlaying
          /\ loaded = {[id |-> sound, uri |-> lastDone.uri, playing |-> TRUE]}

C19_Witness ==
    /\ CompletedAlone("play") /\ lastDone.result = "loaded"
    /\ pre.from = "Paused" /\ pre.prevUri = lastDone.uri

\* C20: when the component has unmounted, no sound is loaded.
C20_UnmountUnloads == lastDone.op = "unmount" => loaded = {}

\* the stop invocations in flight for a recording, and the files moved from it
StopsInFlight(h) ==
    LET ts == {t \in BagToSet(stopTasks) : t.rec = h}
    IN IF ts = {} THEN 0
       ELSE BagCardinality([t \in ts |-> CopiesIn(t, stopTasks)])

CommittedFrom(h) == Cardinality({f \in files : f.content = h})

\* C21: in every interleaving of presses of the record button, a recording
\* is finalized at most once: when stopAndUnloadAsync resolves for it the
\* device is still open (no other stop has closed it), when moveAsync
\* resolves for it its artifact is still there (no other stop has moved it),
\* and at no time does a recording have more than one stop in flight or more
\* than one file, or both a stop in flight and a file.
C21_FinalizedOnce ==
    [][/\ \A t \in BagToSet(stopTasks) :
            CopiesIn(t, stopTasks') < CopiesIn(t, stopTasks)
            => /\ t.pc = "unload" => t.rec \in openRecordings
               /\ t.pc = "move" => t.rec \in tempFiles
       /\ \A h \in 1..MaxRecordings :
            StopsInFlight(h)' + CommittedFrom(h)' <= 1]_vars

\* a stop is pressed while an earlier stop has not finished
C21_Witness == BagCardinality(stopTasks) = 2

\* C22: when a deleteRecording(id) that ran alone has removed the file, no
\* loaded sound was loaded from id, whatever the playback state it was
\* invoked in.
C22_DeleteLeavesNoSound ==
    (CompletedAlone("delete") /\ lastDone.result = "deleted")
    => \A s \in loaded : s.uri # lastDone.uri

====
